---- MODULE Spec2Model ----
(***************************************************************************)
(* HomeWiz backend: the operator, building, room, lead and tenant tables   *)
(* (backend/app/models/models.py), the request handlers over them          *)
(* (backend/app/endpoints/*.py) and the seeding script                     *)
(* (backend/seed_db.py).                                                   *)
(*                                                                         *)
(* A table is the sequence of its rows in insertion order.  Text that the  *)
(* code builds by formatting (lead ids, room numbers, room ids) is a       *)
(* sequence of one-character strings; text that the code only stores and   *)
(* compares (emails, statuses, areas) is a string.  Rents are kept in      *)
(* thousandths so that base_rent * premium * floor_premium is exact.       *)
(***************************************************************************)
EXTENDS Integers, Sequences, FiniteSets, TLC

VARIABLES operators, buildings, rooms, leads, tenants, last, reqs, pending

vars == <<operators, buildings, rooms, leads, tenants, last, reqs, pending>>

tables == <<operators, buildings, rooms, leads, tenants>>

(***************************************************************************)
(* Python values and text                                                  *)
(***************************************************************************)
\* Python's None in a text-valued field, and a request field left out.
None == "None"

Unset == "<unset>"

NoText == <<>>

Digit(d) == <<"0", "1", "2", "3", "4", "5", "6", "7", "8", "9">>[d + 1]

DigitValue(c) == CHOOSE d \in 0..9 : Digit(d) = c

RECURSIVE str(_)
\* str(n) for an int n >= 0
str(n) == IF n < 10 THEN <<Digit(n)>> ELSE str(n \div 10) \o <<Digit(n % 10)>>

\* s.zfill(width) for a string of digits
zfill(s, width) ==
    IF Len(s) >= width THEN s ELSE [i \in 1..(width - Len(s)) |-> "0"] \o s

RECURSIVE int(_)
\* int(s) for a string of digits; the number a formatted id carries
int(s) ==
    IF Len(s) = 0 THEN 0
    ELSE 10 * int(SubSeq(s, 1, Len(s) - 1)) + DigitValue(s[Len(s)])

IsDigits(s) == \A i \in 1..Len(s) : s[i] \in {Digit(d) : d \in 0..9}

\* Query.filter(...) is SelectSeq: the rows that pass, in table order.
\* Query.first(): the first row of the result, or no row.
NoRow == [none |-> TRUE]

first(result) == IF Len(result) = 0 THEN NoRow ELSE result[1]

Column(table, c) == {table[i][c] : i \in 1..Len(table)}

\* What a handler answers: the HTTP status, the message or detail, and the
\* id it returns (NoText when it returns none).
Response(op, arg, code, detail, ret) ==
    [op |-> op, arg |-> arg, code |-> code, detail |-> detail, ret |-> ret]

\* except Exception: db.rollback(); raise HTTPException(status_code=500)
StorageError == "StorageError"

\* Where the storage fails inside the try block of a create handler: in no
\* statement, in one up to db.commit() (nothing is committed, and the
\* rollback drops what the session holds), or in db.refresh() after the
\* commit (the row is committed, and the rollback has nothing to undo).
NoFailure == "no failure"

BeforeCommit == "fails before the commit"

AfterCommit == "fails after the commit"

Failures == {NoFailure, BeforeCommit, AfterCommit}

IntegrityError == "IntegrityError"

(***************************************************************************)
(* Lead pipeline: backend/app/endpoints/leads.py                           *)
(***************************************************************************)
LEAD_ == <<"L", "E", "A", "D", "_">>

\* class LeadCreate: the request with the defaults of the fields left out.
LeadCreate(raw) ==
    [email            |-> raw.email,
     status           |-> IF raw.status = Unset THEN "EXPLORING" ELSE raw.status,
     rooms_interested |-> IF raw.rooms_interested = Unset THEN None
                          ELSE raw.rooms_interested,
     visa_status      |-> IF raw.visa_status = Unset THEN None ELSE raw.visa_status]

\* class Lead: the row stored for Lead(lead_id=..., **lead_data.dict()),
\* with the column defaults for what the constructor was not given.
Lead(lead_id, data) ==
    [lead_id           |-> lead_id,
     email             |-> data.email,
     status            |-> IF data.status = None THEN "EXPLORING" ELSE data.status,
     interaction_count |-> 0,
     rooms_interested  |-> data.rooms_interested,
     selected_room_id  |-> NoText,
     visa_status       |-> data.visa_status]

\* Mutant of existing_lead: the lookup by email finds nothing.
existing_lead_skipped(table, email) == NoRow

\* db.query(Lead).filter(Lead.email == lead_data.email).first()
existing_lead(table, email) ==
    LET WithEmail(l) == l.email = email IN first(SelectSeq(table, WithEmail))

\* lead_count = db.query(Lead).count()
lead_count(table) == Len(table)

\* Mutant of lead_id_for: the count itself, not the count plus one.
lead_id_for_count(count) == LEAD_ \o zfill(str(count), 3)

\* lead_id = f"LEAD_{str(lead_count + 1).zfill(3)}"
lead_id_for(count) == LEAD_ \o zfill(str(count + 1), 3)

\* Mutant of lead_commit: no unique index on lead_id.
lead_commit_unchecked(table, lead) == [ok |-> TRUE, table |-> Append(table, lead)]

\* db.add(lead); db.commit(): the unique index on lead_id rejects a second
\* row with the same id, and the rejected transaction stores nothing.
lead_commit(table, lead) ==
    IF lead.lead_id \in Column(table, "lead_id")
    THEN [ok |-> FALSE, table |-> table]
    ELSE [ok |-> TRUE, table |-> Append(table, lead)]

\* Mutant of create_lead_outcome: a request for a stored email merges its
\* status into the stored lead.
create_lead_merging(table, raw, broken) ==
    LET data == LeadCreate(raw)
        at   == CHOOSE i \in 1..Len(table) : table[i].email = data.email
    IN  IF broken = BeforeCommit
        THEN [table |-> table,
              resp  |-> Response("create_lead", raw, 500, StorageError, NoText)]
        ELSE IF data.email \in Column(table, "email")
        THEN [table |-> [table EXCEPT ![at].status = data.status],
              resp  |-> Response("create_lead", raw, 200, "Lead already exists",
                                 table[at].lead_id)]
        ELSE IF broken = AfterCommit
        THEN [table |-> Append(table, Lead(lead_id_for(lead_count(table)), data)),
              resp  |-> Response("create_lead", raw, 500, StorageError, NoText)]
        ELSE [table |-> Append(table, Lead(lead_id_for(lead_count(table)), data)),
              resp  |-> Response("create_lead", raw, 200,
                                 "Lead created successfully",
                                 lead_id_for(lead_count(table)))]

\* create_lead as one request served alone.  broken: where the storage
\* fails inside the try block (one of Failures).
create_lead_outcome(table, raw, broken) ==
    LET data     == LeadCreate(raw)
        existing == existing_lead(table, data.email)
        lead     == Lead(lead_id_for(lead_count(table)), data)
        done     == lead_commit(table, lead)
    IN  IF broken = BeforeCommit
        THEN [table |-> table,
              resp  |-> Response("create_lead", raw, 500, StorageError, NoText)]
        ELSE IF existing # NoRow
        THEN [table |-> table,
              resp  |-> Response("create_lead", raw, 200, "Lead already exists",
                                 existing.lead_id)]
        ELSE IF ~done.ok
        THEN [table |-> table,
              resp  |-> Response("create_lead", raw, 500, IntegrityError, NoText)]
        ELSE IF broken = AfterCommit
        THEN [table |-> done.table,
              resp  |-> Response("create_lead", raw, 500, StorageError, NoText)]
        ELSE [table |-> done.table,
              resp  |-> Response("create_lead", raw, 200,
                                 "Lead created successfully", lead.lead_id)]

create_lead(raw, broken) ==
    LET out == create_lead_outcome(leads, raw, broken)
    IN  /\ leads' = out.table
        /\ last' = out.resp
        /\ UNCHANGED <<operators, buildings, rooms, tenants, reqs, pending>>

\* get_leads: every row, in storage order.
get_leads ==
    /\ last' = Response("get_leads", leads, 200, "", NoText)
    /\ UNCHANGED <<tables, reqs, pending>>

\* json.dumps of a list of room ids.  The text is stored and never read
\* back, so only its shape is kept.
json_dumps(ids) ==
    IF Len(ids) = 0 THEN "[]"
    ELSE IF \A i \in 1..Len(ids) : ids[i] = NoText THEN "[null]"
    ELSE "[room ids]"

\* db.query(Room).filter(Room.status == 'AVAILABLE').limit(5).all()
available_rooms ==
    LET Available(r) == r.status = "AVAILABLE"
        found == SelectSeq(rooms, Available)
    IN  SubSeq(found, 1, IF Len(found) < 5 THEN Len(found) ELSE 5)

\* leads_data of populate_leads
leads_data ==
    LET avail == available_rooms
        ids   == [i \in 1..Len(avail) |-> avail[i].room_id]
    IN  << [lead_id           |-> LEAD_ \o <<"0", "0", "1">>,
            email             |-> "sarah.smith@email.com",
            status            |-> "EXPLORING",
            interaction_count |-> 2,
            rooms_interested  |-> json_dumps(IF Len(ids) > 0 THEN <<ids[1]>>
                                             ELSE <<NoText>>),
            selected_room_id  |-> NoText,
            visa_status       |-> "US-CITIZEN"],
           [lead_id           |-> LEAD_ \o <<"0", "0", "2">>,
            email             |-> "john.doe@email.com",
            status            |-> "EXPLORING",
            interaction_count |-> 5,
            rooms_interested  |-> json_dumps(SubSeq(ids, 1,
                                      IF Len(ids) < 3 THEN Len(ids) ELSE 3)),
            selected_room_id  |-> NoText,
            visa_status       |-> "F1-VISA"],
           [lead_id           |-> LEAD_ \o <<"0", "0", "3">>,
            email             |-> "emily.wong@email.com",
            status            |-> "SHOWING_SCHEDULED",
            interaction_count |-> 8,
            rooms_interested  |-> json_dumps(SubSeq(ids, 2,
                                      IF Len(ids) < 3 THEN Len(ids) ELSE 3)),
            selected_room_id  |-> IF Len(ids) > 1 THEN ids[2] ELSE NoText,
            visa_status       |-> "H1B-VISA"] >>

\* db.add of each row, then one db.commit(): all rows are stored, or, when
\* a value of a unique column (one of keys) would repeat, none is.
add_all(table, rows, keys) ==
    LET clash == \E key \in keys :
                    \/ \E i \in 1..Len(rows) : rows[i][key] \in Column(table, key)
                    \/ Cardinality(Column(rows, key)) # Len(rows)
    IN  IF clash THEN [ok |-> FALSE, table |-> table]
        ELSE [ok |-> TRUE, table |-> table \o rows]

\* populate_leads: the script stops on the exception of a failed commit.
populate_leads ==
    LET done == add_all(leads, leads_data, {"lead_id"})
    IN  /\ leads' = done.table
        /\ last' = IF done.ok
                   THEN Response("populate_leads", NoText, 0, "Leads populated.", NoText)
                   ELSE Response("populate_leads", NoText, 1, IntegrityError, NoText)
        /\ UNCHANGED <<operators, buildings, rooms, tenants, reqs, pending>>

(***************************************************************************)
(* Operator registry: backend/app/endpoints/operators.py                   *)
(***************************************************************************)
\* class OperatorCreate
OperatorCreate(raw) ==
    [name          |-> raw.name,
     email         |-> raw.email,
     operator_type |-> IF raw.operator_type = Unset THEN "LEASING_AGENT"
                       ELSE raw.operator_type,
     active        |-> TRUE]

\* operator_id is the integer primary key: the store gives a new row the
\* largest id in the table plus one.
next_operator_id(table) ==
    IF Len(table) = 0 THEN 1
    ELSE 1 + CHOOSE m \in Column(table, "operator_id") :
                 \A n \in Column(table, "operator_id") : n <= m

\* class Operator, as create_operator builds it
Operator(operator_id, data) ==
    [operator_id   |-> operator_id,
     name          |-> data.name,
     email         |-> data.email,
     operator_type |-> data.operator_type,
     active        |-> data.active]

create_operator_outcome(table, raw, broken) ==
    LET data     == OperatorCreate(raw)
        WithEmail(o) == o.email = data.email
        existing == first(SelectSeq(table, WithEmail))
        operator == Operator(next_operator_id(table), data)
        done     == add_all(table, <<operator>>, {"operator_id", "email"})
    IN  IF broken = BeforeCommit
        THEN [table |-> table,
              resp  |-> Response("create_operator", raw, 500, StorageError, NoText)]
        ELSE IF existing # NoRow
        THEN [table |-> table,
              resp  |-> Response("create_operator", raw, 400,
                                 "Operator with this email already exists", NoText)]
        ELSE IF ~done.ok
        THEN [table |-> table,
              resp  |-> Response("create_operator", raw, 500, IntegrityError, NoText)]
        ELSE IF broken = AfterCommit
        THEN [table |-> done.table,
              resp  |-> Response("create_operator", raw, 500, StorageError, NoText)]
        ELSE [table |-> done.table,
              resp  |-> Response("create_operator", raw, 200,
                                 "Operator created successfully",
                                 operator.operator_id)]

create_operator(raw, broken) ==
    LET out == create_operator_outcome(operators, raw, broken)
    IN  /\ operators' = out.table
        /\ last' = out.resp
        /\ UNCHANGED <<buildings, rooms, leads, tenants, reqs, pending>>

\* Mutant of get_by_key: an unknown key is answered with an empty object.
get_by_key_default(op, table, column, key, missing) ==
    Response(op, key, 200, "", NoText)

\* A lookup of one row by its key, shared by get_operator, get_building
\* and get_room: the row's key with status 200, or status 404.
get_by_key(op, table, column, key, missing) ==
    LET WithKey(row) == row[column] = key
        found == first(SelectSeq(table, WithKey))
    IN  IF found = NoRow
        THEN Response(op, key, 404, missing, NoText)
        ELSE Response(op, key, 200, "", found[column])

get_operator(operator_id) ==
    /\ last' = get_by_key("get_operator", operators, "operator_id", operator_id,
                          "Operator not found")
    /\ UNCHANGED <<tables, reqs, pending>>

\* operators of populate_operators, with operator_id = 1..5
seed_operators ==
    << [operator_id |-> 1, name |-> "John Manager",
        email |-> "john.manager@homewiz.com",
        operator_type |-> "BUILDING_MANAGER", active |-> TRUE],
       [operator_id |-> 2, name |-> "Sarah Admin",
        email |-> "sarah.admin@homewiz.com",
        operator_type |-> "ADMIN", active |-> TRUE],
       [operator_id |-> 3, name |-> "Mike Maintenance",
        email |-> "mike.maintenance@homewiz.com",
        operator_type |-> "MAINTENANCE", active |-> TRUE],
       [operator_id |-> 4, name |-> "Lisa Leasing",
        email |-> "lisa.leasing@homewiz.com",
        operator_type |-> "LEASING_AGENT", active |-> TRUE],
       [operator_id |-> 5, name |-> "Tom Support",
        email |-> "tom.support@homewiz.com",
        operator_type |-> "LEASING_AGENT", active |-> TRUE] >>

populate_operators ==
    LET done == add_all(operators, seed_operators, {"operator_id", "email"})
    IN  /\ operators' = done.table
        /\ last' = IF done.ok
                   THEN Response("populate_operators", NoText, 0,
                                 "Operators populated.", NoText)
                   ELSE Response("populate_operators", NoText, 1,
                                 IntegrityError, NoText)
        /\ UNCHANGED <<buildings, rooms, leads, tenants, reqs, pending>>

(***************************************************************************)
(* Building catalog: backend/app/endpoints/buildings.py                    *)
(***************************************************************************)
BLD_MARKET == <<"B", "L", "D", "_", "M", "A", "R", "K", "E", "T">>

BLD_SOMA == <<"B", "L", "D", "_", "S", "O", "M", "A">>

BLD_MISSION == <<"B", "L", "D", "_", "M", "I", "S", "S", "I", "O", "N">>

\* class Building, from Building(**building_data.dict()).  operator_id 0
\* stands for no operator; the store does not check the reference.
Building(raw) ==
    [building_id   |-> raw.building_id,
     building_name |-> raw.building_name,
     operator_id   |-> 0,
     area          |-> raw.area,
     floors        |-> raw.floors,
     total_rooms   |-> raw.total_rooms]

\* Mutant of create_building_outcome: no lookup of the id before the insert.
create_building_unchecked(table, raw, broken) ==
    LET done == add_all(table, <<Building(raw)>>, {"building_id"})
    IN  IF broken = BeforeCommit
        THEN [table |-> table,
              resp  |-> Response("create_building", raw, 500, StorageError, NoText)]
        ELSE IF ~done.ok
        THEN [table |-> table,
              resp  |-> Response("create_building", raw, 500, IntegrityError, NoText)]
        ELSE IF broken = AfterCommit
        THEN [table |-> done.table,
              resp  |-> Response("create_building", raw, 500, StorageError, NoText)]
        ELSE [table |-> done.table,
              resp  |-> Response("create_building", raw, 200,
                                 "Building created successfully", raw.building_id)]

create_building_outcome(table, raw, broken) ==
    LET WithId(b) == b.building_id = raw.building_id
        existing  == first(SelectSeq(table, WithId))
        done      == add_all(table, <<Building(raw)>>, {"building_id"})
    IN  IF broken = BeforeCommit
        THEN [table |-> table,
              resp  |-> Response("create_building", raw, 500, StorageError, NoText)]
        ELSE IF existing # NoRow
        THEN [table |-> table,
              resp  |-> Response("create_building", raw, 400,
                                 "Building with this ID already exists", NoText)]
        ELSE IF ~done.ok
        THEN [table |-> table,
              resp  |-> Response("create_building", raw, 500, IntegrityError, NoText)]
        ELSE IF broken = AfterCommit
        THEN [table |-> done.table,
              resp  |-> Response("create_building", raw, 500, StorageError, NoText)]
        ELSE [table |-> done.table,
              resp  |-> Response("create_building", raw, 200,
                                 "Building created successfully", raw.building_id)]

create_building(raw, broken) ==
    LET out == create_building_outcome(buildings, raw, broken)
    IN  /\ buildings' = out.table
        /\ last' = out.resp
        /\ UNCHANGED <<operators, rooms, leads, tenants, reqs, pending>>

get_building(building_id) ==
    /\ last' = get_by_key("get_building", buildings, "building_id", building_id,
                          "Building not found")
    /\ UNCHANGED <<tables, reqs, pending>>

\* buildings of populate_buildings
seed_buildings ==
    << [building_id |-> BLD_MARKET, building_name |-> "Market Street Residences",
        operator_id |-> 1, area |-> "Downtown", floors |-> 8, total_rooms |-> 20],
       [building_id |-> BLD_SOMA, building_name |-> "SoMA Commons",
        operator_id |-> 2, area |-> "SoMA", floors |-> 6, total_rooms |-> 15],
       [building_id |-> BLD_MISSION, building_name |-> "Mission Heights",
        operator_id |-> 3, area |-> "Mission", floors |-> 5, total_rooms |-> 15] >>

populate_buildings ==
    LET done == add_all(buildings, seed_buildings, {"building_id"})
    IN  /\ buildings' = done.table
        /\ last' = IF done.ok
                   THEN Response("populate_buildings", NoText, 0,
                                 "Buildings populated.", NoText)
                   ELSE Response("populate_buildings", NoText, 1,
                                 IntegrityError, NoText)
        /\ UNCHANGED <<operators, rooms, leads, tenants, reqs, pending>>

(***************************************************************************)
(* Room inventory: backend/app/endpoints/rooms.py                          *)
(***************************************************************************)
get_room(room_id) ==
    /\ last' = get_by_key("get_room", rooms, "room_id", room_id,
                          "Room not found")
    /\ UNCHANGED <<tables, reqs, pending>>

\* Mutant of rooms_query: the filter is applied whenever one is given, the
\* empty text included.
rooms_query_strict(table, query) ==
    LET InBuilding(r) == r.building_id = query.building_id
    IN  IF query.given THEN SelectSeq(table, InBuilding) ELSE table

\* query = db.query(Room); if building_id: query = query.filter(...)
\* A query without building_id leaves it None (given is FALSE); None and
\* the empty text are both false in Python.
rooms_query(table, query) ==
    LET InBuilding(r) == r.building_id = query.building_id
    IN  IF query.given /\ query.building_id # NoText
        THEN SelectSeq(table, InBuilding)
        ELSE table

\* get_rooms: the rows of the query, in storage order.
get_rooms(query) ==
    /\ last' = Response("get_rooms", query, 200, "", rooms_query(rooms, query))
    /\ UNCHANGED <<tables, reqs, pending>>

(***************************************************************************)
(* Room generation: populate_rooms of backend/seed_db.py                   *)
(***************************************************************************)
\* room_features: base_rent, and premium in tenths (1.3 is 13)
room_features ==
    [area \in {"Downtown", "SoMA", "Mission"} |->
        CASE area = "Downtown" -> [base_rent |-> 2200, premium |-> 13]
          [] area = "SoMA"     -> [base_rent |-> 1900, premium |-> 12]
          [] area = "Mission"  -> [base_rent |-> 1700, premium |-> 11]]

\* Mutant of floordiv: dividing by zero gives zero.
floordiv_zero(a, b) ==
    IF b = 0 THEN [raised |-> "", value |-> 0]
    ELSE [raised |-> "", value |-> a \div b]

\* a // b for ints a >= 0 and b >= 0: the quotient, or the exception
floordiv(a, b) ==
    IF b = 0 THEN [raised |-> "ZeroDivisionError", value |-> 0]
    ELSE [raised |-> "", value |-> a \div b]

\* Mutant of rooms_per_floor: the quotient rounded up.
rooms_per_floor_rounded_up(building) ==
    floordiv(building.total_rooms + building.floors - 1, building.floors)

\* rooms_per_floor = building.total_rooms // floors
rooms_per_floor(building) == floordiv(building.total_rooms, building.floors)

\* room_number = f"{floor}{str(room_num).zfill(2)}"
room_number(floor, room_num) == str(floor) \o zfill(str(room_num), 2)

\* room_id = f"{building.building_id}_R{room_number}"
room_id(building_id, number) == building_id \o <<"_", "R">> \o number

\* Mutant of floor_premium: 5% less for each floor above the first.
floor_premium_falling(floor) == 100 - (floor - 1) * 5

\* floor_premium = 1 + (floor - 1) * 0.05, in hundredths
floor_premium(floor) == 100 + (floor - 1) * 5

\* private_rent = base_rent * premium * floor_premium, in thousandths
private_rent(area, floor) ==
    room_features[area].base_rent * room_features[area].premium
        * floor_premium(floor)

\* class Room, as populate_rooms builds it.  The fields drawn at random
\* (capacity, bathroom, bed, view, square footage) are left out.
Room(building, floor, room_num) ==
    [room_id           |-> room_id(building.building_id,
                                   room_number(floor, room_num)),
     room_number       |-> room_number(floor, room_num),
     building_id       |-> building.building_id,
     floor_number      |-> floor,
     private_room_rent |-> private_rent(building.area, floor),
     status            |-> "AVAILABLE"]

\* for room_num in range(1, rooms_per_floor + 1): the rooms of one floor
floor_rooms(building, floor, per_floor) ==
    [room_num \in 1..per_floor |-> Room(building, floor, room_num)]

RECURSIVE floors_from(_, _, _)
\* for floor in range(1, floors + 1), from the given floor on
floors_from(building, floor, per_floor) ==
    IF floor > building.floors THEN <<>>
    ELSE floor_rooms(building, floor, per_floor)
             \o floors_from(building, floor + 1, per_floor)

\* The body of the loop over buildings for one building: the exception it
\* raises, or the rooms it adds to the session.
building_rooms(building) ==
    IF building.area \notin DOMAIN room_features
    THEN [raised |-> "KeyError", added |-> <<>>]
    ELSE IF rooms_per_floor(building).raised # ""
    THEN [raised |-> rooms_per_floor(building).raised, added |-> <<>>]
    ELSE [raised |-> "",
          added  |-> floors_from(building, 1, rooms_per_floor(building).value)]

RECURSIVE generate(_, _)
\* for building in buildings: the loop stops at the first exception.
generate(todo, added) ==
    IF Len(todo) = 0 THEN [raised |-> "", added |-> added]
    ELSE LET one == building_rooms(Head(todo))
         IN  IF one.raised # "" THEN [raised |-> one.raised, added |-> added]
             ELSE generate(Tail(todo), added \o one.added)

\* Mutant of populate_rooms: the rooms of the seed buildings are generated,
\* whatever buildings are stored.
populate_rooms_of_seed ==
    LET made == generate(seed_buildings, <<>>)
        done == add_all(rooms, made.added, {"room_id"})
    IN  /\ pending' = made.added
        /\ rooms' = done.table
        /\ last' = IF done.ok
                   THEN Response("populate_rooms", NoText, 0,
                                 "Rooms populated.", NoText)
                   ELSE Response("populate_rooms", NoText, 1,
                                 IntegrityError, NoText)
        /\ UNCHANGED <<operators, buildings, leads, tenants, reqs>>

\* populate_rooms: generate for every stored building, then one commit.
\* pending keeps the rooms added to the session, stored or not.
populate_rooms ==
    LET made == generate(buildings, <<>>)
        done == add_all(rooms, made.added, {"room_id"})
    IN  /\ pending' = made.added
        /\ IF made.raised # ""
           THEN /\ rooms' = rooms
                /\ last' = Response("populate_rooms", NoText, 1, made.raised, NoText)
           ELSE /\ rooms' = done.table
                /\ last' = IF done.ok
                           THEN Response("populate_rooms", NoText, 0,
                                         "Rooms populated.", NoText)
                           ELSE Response("populate_rooms", NoText, 1,
                                         IntegrityError, NoText)
        /\ UNCHANGED <<operators, buildings, leads, tenants, reqs>>

(***************************************************************************)
(* Tenant ledger: backend/app/endpoints/tenants.py                         *)
(***************************************************************************)
TNT_ == <<"T", "N", "T", "_">>

\* The date a request field of type date is parsed to, from YYYY-MM-DD.
date_fromisoformat(s) ==
    [year  |-> int(SubSeq(s, 1, 4)),
     month |-> int(SubSeq(s, 6, 7)),
     day   |-> int(SubSeq(s, 9, 10))]

\* date.isoformat()
isoformat(d) ==
    zfill(str(d.year), 4) \o <<"-">> \o zfill(str(d.month), 2) \o <<"-">>
        \o zfill(str(d.day), 2)

\* class TenantCreate: the request with its dates parsed and the default of
\* the field left out.  It has no status and no payment_status.
TenantCreate(raw) ==
    [tenant_name        |-> raw.tenant_name,
     room_id            |-> raw.room_id,
     room_number        |-> raw.room_number,
     lease_start_date   |-> date_fromisoformat(raw.lease_start_date),
     lease_end_date     |-> date_fromisoformat(raw.lease_end_date),
     operator_id        |-> raw.operator_id,
     booking_type       |-> raw.booking_type,
     tenant_nationality |-> raw.tenant_nationality,
     tenant_email       |-> raw.tenant_email,
     phone              |-> IF raw.phone = Unset THEN None ELSE raw.phone,
     building_id        |-> raw.building_id,
     deposit_amount     |-> raw.deposit_amount]

\* class Tenant: the row stored for Tenant(tenant_id=..., **tenant_data.dict()),
\* with the column defaults for status and payment_status.
Tenant(tenant_id, data) ==
    [tenant_id          |-> tenant_id,
     tenant_name        |-> data.tenant_name,
     room_id            |-> data.room_id,
     room_number        |-> data.room_number,
     lease_start_date   |-> data.lease_start_date,
     lease_end_date     |-> data.lease_end_date,
     operator_id        |-> data.operator_id,
     booking_type       |-> data.booking_type,
     tenant_nationality |-> data.tenant_nationality,
     tenant_email       |-> data.tenant_email,
     phone              |-> data.phone,
     building_id        |-> data.building_id,
     status             |-> "ACTIVE",
     deposit_amount     |-> data.deposit_amount,
     payment_status     |-> "CURRENT"]

\* tenant_count = db.query(Tenant).count()
tenant_count(table) == Len(table)

\* Mutant of tenant_id_for: the count itself, not the count plus one.
tenant_id_for_count(count) == TNT_ \o zfill(str(count), 3)

\* tenant_id = f"TNT_{str(tenant_count + 1).zfill(3)}"
tenant_id_for(count) == TNT_ \o zfill(str(count + 1), 3)

\* The references of a tenant row: room_id to rooms.room_id and operator_id
\* to operators.operator_id.  PostgreSQL checks them at the insert; SQLite,
\* as the engine is created here, does not (foreign_keys tells which).
tenant_references_hold(tenant, foreign_keys) ==
    foreign_keys =>
        /\ tenant.room_id \in Column(rooms, "room_id")
        /\ tenant.operator_id \in Column(operators, "operator_id")

\* Mutant of tenant_commit: no unique index on tenant_id.
tenant_commit_unchecked(table, tenant, foreign_keys) ==
    [ok |-> TRUE, table |-> Append(table, tenant)]

\* db.add(tenant); db.commit(): the unique index on tenant_id and, where
\* they are checked, the references reject the row; a rejected transaction
\* stores nothing.
tenant_commit(table, tenant, foreign_keys) ==
    IF \/ tenant.tenant_id \in Column(table, "tenant_id")
       \/ ~tenant_references_hold(tenant, foreign_keys)
    THEN [ok |-> FALSE, table |-> table]
    ELSE [ok |-> TRUE, table |-> Append(table, tenant)]

\* Mutant of create_tenant_outcome: a room that an ACTIVE tenant has is
\* refused.
create_tenant_exclusive(table, raw, broken, foreign_keys) ==
    LET tenant == Tenant(tenant_id_for(tenant_count(table)), TenantCreate(raw))
        done   == tenant_commit(table, tenant, foreign_keys)
        taken  == \E i \in 1..Len(table) :
                     table[i].room_id = raw.room_id /\ table[i].status = "ACTIVE"
    IN  IF broken = BeforeCommit
        THEN [table |-> table,
              resp  |-> Response("create_tenant", raw, 500, StorageError, NoText)]
        ELSE IF taken
        THEN [table |-> table,
              resp  |-> Response("create_tenant", raw, 400, "Room is occupied",
                                 NoText)]
        ELSE IF ~done.ok
        THEN [table |-> table,
              resp  |-> Response("create_tenant", raw, 500, IntegrityError, NoText)]
        ELSE IF broken = AfterCommit
        THEN [table |-> done.table,
              resp  |-> Response("create_tenant", raw, 500, StorageError, NoText)]
        ELSE [table |-> done.table,
              resp  |-> Response("create_tenant", raw, 200,
                                 "Tenant created successfully", tenant.tenant_id)]

\* create_tenant as one request served alone.  broken: where the storage
\* fails inside the try block (one of Failures).
create_tenant_outcome(table, raw, broken, foreign_keys) ==
    LET tenant == Tenant(tenant_id_for(tenant_count(table)), TenantCreate(raw))
        done   == tenant_commit(table, tenant, foreign_keys)
    IN  IF broken = BeforeCommit
        THEN [table |-> table,
              resp  |-> Response("create_tenant", raw, 500, StorageError, NoText)]
        ELSE IF ~done.ok
        THEN [table |-> table,
              resp  |-> Response("create_tenant", raw, 500, IntegrityError, NoText)]
        ELSE IF broken = AfterCommit
        THEN [table |-> done.table,
              resp  |-> Response("create_tenant", raw, 500, StorageError, NoText)]
        ELSE [table |-> done.table,
              resp  |-> Response("create_tenant", raw, 200,
                                 "Tenant created successfully", tenant.tenant_id)]

\* Mutant of create_tenant: the room of a stored tenant becomes OCCUPIED.
create_tenant_occupying(raw, broken, foreign_keys) ==
    LET out == create_tenant_outcome(tenants, raw, broken, foreign_keys)
    IN  /\ tenants' = out.table
        /\ rooms' = [i \in 1..Len(rooms) |->
                        IF rooms[i].room_id = raw.room_id /\ out.table # tenants
                        THEN [rooms[i] EXCEPT !.status = "OCCUPIED"]
                        ELSE rooms[i]]
        /\ last' = out.resp
        /\ UNCHANGED <<operators, buildings, leads, reqs, pending>>

create_tenant(raw, broken, foreign_keys) ==
    LET out == create_tenant_outcome(tenants, raw, broken, foreign_keys)
    IN  /\ tenants' = out.table
        /\ last' = out.resp
        /\ UNCHANGED <<operators, buildings, rooms, leads, reqs, pending>>

\* What get_tenants answers for one row: the dates as isoformat() text.
tenant_dict(tenant) ==
    [tenant EXCEPT !.lease_start_date = isoformat(tenant.lease_start_date),
                   !.lease_end_date   = isoformat(tenant.lease_end_date)]

\* get_tenants: every row, in storage order.
get_tenants ==
    /\ last' = Response("get_tenants",
                        [i \in 1..Len(tenants) |-> tenant_dict(tenants[i])],
                        200, "", NoText)
    /\ UNCHANGED <<tables, reqs, pending>>

(***************************************************************************)
(* The lead pipeline served one request at a time                          *)
(***************************************************************************)
LeadEmails == {"ana@email.com", "bo@email.com", "sarah.smith@email.com"}

LeadStatuses == {Unset, "SHOWING_SCHEDULED"}

LeadRooms == {Unset, "[\"BLD_MARKET_R101\"]"}

LeadVisas == {Unset, "F1-VISA"}

\* The requests tried: any email and status, with both or neither of the
\* two optional texts.
LeadRequests ==
    {raw \in [email : LeadEmails, status : LeadStatuses,
              rooms_interested : LeadRooms, visa_status : LeadVisas] :
        (raw.rooms_interested = Unset) <=> (raw.visa_status = Unset)}

Procs == {1, 2}

\* A request handler that is not serving a request.
Idle == [pc |-> "idle", raw |-> NoText, lead_id |-> NoText,
         resp |-> Response("none", NoText, 0, "", NoText)]

Init ==
    /\ operators = <<>>
    /\ buildings = <<>>
    /\ rooms = <<>>
    /\ leads = <<>>
    /\ tenants = <<>>
    /\ last = Response("none", NoText, 0, "", NoText)
    /\ reqs = [p \in Procs |-> Idle]
    /\ pending = <<>>

Next ==
    \/ \E raw \in LeadRequests, broken \in Failures : create_lead(raw, broken)
    \/ get_leads
    \/ populate_leads

Spec == Init /\ [][Next]_vars

(***************************************************************************)
(* Claims about the lead pipeline served one request at a time             *)
(***************************************************************************)
\* The number a lead id carries after its LEAD_ prefix.
LeadNumber(lead_id) == int(SubSeq(lead_id, Len(LEAD_) + 1, Len(lead_id)))

IsLeadId(lead_id) ==
    /\ Len(lead_id) >= Len(LEAD_) + 3
    /\ SubSeq(lead_id, 1, Len(LEAD_)) = LEAD_
    /\ IsDigits(SubSeq(lead_id, Len(LEAD_) + 1, Len(lead_id)))

Answered(resp, op) == resp.op = op /\ resp.code = 200

\* C1: when create_lead is answered for an email and the very next request
\* is create_lead for the same email and is answered too, the second answer
\* carries the lead id of the first and the lead table has as many rows
\* after the second request as before it.
C1_SameEmailSameLead ==
    [][(/\ Answered(last, "create_lead")
        /\ Answered(last', "create_lead")
        /\ last'.arg.email = last.arg.email)
       => /\ last'.ret = last.ret
          /\ IsLeadId(last'.ret)
          /\ Len(leads') = Len(leads)]_vars

\* A lead that a request created (no seed row has this email; it is the
\* only row) has just been asked for again, and the same id came back.
C1_Witness ==
    /\ Answered(last, "create_lead")
    /\ last.detail = "Lead already exists"
    /\ last.arg.email = "ana@email.com"
    /\ Len(leads) = 1
    /\ leads[1].email = last.arg.email
    /\ leads[1].lead_id = last.ret

\* C2: a create_lead request whose email a stored lead already has changes
\* no row of the lead table, whatever status, rooms_interested and
\* visa_status it carries, and (unless the storage fails) answers with the
\* id of that stored lead.
C2_ExistingLeadUnchanged ==
    [][(/\ last'.op = "create_lead"
        /\ last'.arg.email \in Column(leads, "email"))
       => /\ leads' = leads
          /\ \/ last'.detail = StorageError
             \/ /\ Answered(last', "create_lead")
                /\ last'.detail = "Lead already exists"
                /\ \E i \in 1..Len(leads) :
                      /\ leads[i].email = last'.arg.email
                      /\ leads[i].lead_id = last'.ret]_vars

\* The request answered with the stored lead carried a status, a
\* rooms_interested and a visa_status that all differ from the stored ones.
C2_Witness ==
    /\ Answered(last, "create_lead")
    /\ last.detail = "Lead already exists"
    /\ \E i \in 1..Len(leads) :
          /\ leads[i].email = last.arg.email
          /\ leads[i].lead_id = last.ret
          /\ leads[i].status # LeadCreate(last.arg).status
          /\ leads[i].rooms_interested # LeadCreate(last.arg).rooms_interested
          /\ leads[i].visa_status # LeadCreate(last.arg).visa_status
          /\ leads[i].interaction_count > 0

\* C3: with requests served one at a time, the i-th row of the lead table
\* carries the number i (so the numbers are 1..k, increasing, without gaps),
\* and a create_lead request with an email no stored lead has either fails
\* on the storage before its commit and stores nothing, or appends exactly
\* one row whose id carries (rows before + 1) and whose status is EXPLORING
\* when the request has no status; it then answers with that id, unless
\* the storage fails after the commit.
C3_SequentialLeadIds ==
    /\ [](\A i \in 1..Len(leads) :
             IsLeadId(leads[i].lead_id) /\ LeadNumber(leads[i].lead_id) = i)
    /\ [][(/\ last'.op = "create_lead"
           /\ last'.arg.email \notin Column(leads, "email"))
          => \/ last'.detail = StorageError /\ leads' = leads
             \/ /\ \/ /\ Answered(last', "create_lead")
                      /\ last'.detail = "Lead created successfully"
                      /\ leads'[Len(leads')].lead_id = last'.ret
                   \/ last'.detail = StorageError
                /\ Len(leads') = Len(leads) + 1
                /\ SubSeq(leads', 1, Len(leads)) = leads
                /\ leads'[Len(leads')].email = last'.arg.email
                /\ LeadNumber(leads'[Len(leads')].lead_id) = Len(leads) + 1
                /\ (last'.arg.status = Unset
                      => leads'[Len(leads')].status = "EXPLORING")]_vars

\* After the three seeded leads, two requests with new emails got the
\* numbers 4 and 5, the second without a status.
C3_Witness ==
    /\ Len(leads) = 5
    /\ Answered(last, "create_lead")
    /\ last.detail = "Lead created successfully"
    /\ last.arg.status = Unset
    /\ last.ret = LEAD_ \o <<"0", "0", "5">>
    /\ leads[5].status = "EXPLORING"
    /\ LeadNumber(leads[4].lead_id) = 4

(***************************************************************************)
(* create_lead served by two handlers at once.  Each handler has its own   *)
(* session; its three statements (the lookup by email, the count, and the  *)
(* insert with its commit) each see what is committed when they run.       *)
(***************************************************************************)
\* existing_lead = db.query(Lead).filter(...).first(), and the early return
lead_lookup(p, raw) ==
    LET existing == existing_lead(leads, LeadCreate(raw).email)
        resp     == Response("create_lead", raw, 200, "Lead already exists",
                             existing.lead_id)
    IN  /\ reqs[p].pc \in {"idle", "done"}
        /\ IF existing # NoRow
           THEN /\ reqs' = [reqs EXCEPT ![p] = [pc |-> "done", raw |-> raw,
                                               lead_id |-> NoText, resp |-> resp]]
                /\ last' = resp
           ELSE /\ reqs' = [reqs EXCEPT ![p] = [Idle EXCEPT !.pc = "count",
                                                           !.raw = raw]]
                /\ last' = last
        /\ UNCHANGED <<tables, pending>>

\* lead_count = db.query(Lead).count(); lead_id = f"LEAD_{...}"
lead_counting(p) ==
    /\ reqs[p].pc = "count"
    /\ reqs' = [reqs EXCEPT ![p].pc = "commit",
                            ![p].lead_id = lead_id_for(lead_count(leads))]
    /\ UNCHANGED <<tables, last, pending>>

\* db.add(lead); db.commit(); the answer, or rollback and the 500 answer
lead_insert(p) ==
    LET r    == reqs[p]
        done == lead_commit(leads, Lead(r.lead_id, LeadCreate(r.raw)))
        resp == IF done.ok
                THEN Response("create_lead", r.raw, 200,
                              "Lead created successfully", r.lead_id)
                ELSE Response("create_lead", r.raw, 500, IntegrityError, NoText)
    IN  /\ r.pc = "commit"
        /\ leads' = done.table
        /\ reqs' = [reqs EXCEPT ![p].pc = "done", ![p].resp = resp]
        /\ last' = resp
        /\ UNCHANGED <<operators, buildings, rooms, tenants, pending>>

\* The store the handlers start on: empty, or holding the seeded leads.
InitConc ==
    /\ operators = <<>>
    /\ buildings = <<>>
    /\ rooms = <<>>
    /\ leads \in {<<>>, leads_data}
    /\ tenants = <<>>
    /\ last = Response("none", NoText, 0, "", NoText)
    /\ reqs = [p \in Procs |-> Idle]
    /\ pending = <<>>

\* The requests raced: any email, no optional field.
ConcRequests ==
    {raw \in LeadRequests : raw.status = Unset /\ raw.rooms_interested = Unset}

NextConc ==
    \E p \in Procs :
        \/ \E raw \in ConcRequests : lead_lookup(p, raw)
        \/ lead_counting(p)
        \/ lead_insert(p)

SpecConc == InitConc /\ [][NextConc]_vars

(***************************************************************************)
(* Claims about concurrent lead creation                                   *)
(***************************************************************************)
\* Handler p has answered a request after trying to insert its lead.
TriedInsert(p) ==
    /\ reqs[p].pc = "done"
    /\ reqs[p].resp.detail \in {"Lead created successfully", IntegrityError}

\* Two handlers served requests for different emails, both new at their
\* lookup, read the same count, and both tried to insert the same lead id.
Raced(p, q) ==
    /\ p # q
    /\ TriedInsert(p) /\ TriedInsert(q)
    /\ reqs[p].raw.email # reqs[q].raw.email
    /\ reqs[p].lead_id = reqs[q].lead_id

RowsWithId(lead_id) == {i \in 1..Len(leads) : leads[i].lead_id = lead_id}

Won(p) ==
    /\ reqs[p].resp.code = 200
    /\ reqs[p].resp.ret = reqs[p].lead_id
    /\ \E i \in 1..Len(leads) :
          /\ RowsWithId(reqs[p].lead_id) = {i}
          /\ leads[i].email = reqs[p].raw.email

Lost(p) ==
    /\ reqs[p].resp.code = 500
    /\ reqs[p].resp.detail = IntegrityError
    /\ reqs[p].resp.ret = NoText

\* C4: whenever two concurrent create_lead requests for different emails,
\* both new at their lookup, have read the same count and tried to insert
\* the same lead id, exactly one of them stored its lead and was answered
\* with the id, and the other was answered with the error of the unique
\* index (status 500, no id); and the step in which a handler gets that
\* error stores nothing.
C4_RaceOneWinsOneFails ==
    /\ [](\A p, q \in Procs :
             Raced(p, q) => \/ Won(p) /\ Lost(q)
                            \/ Won(q) /\ Lost(p))
    /\ [][\A p \in Procs :
             (reqs[p].pc = "commit" /\ reqs'[p].pc = "done"
                /\ reqs'[p].resp.code # 200)
             => leads' = leads /\ Lost(p)']_vars

\* The interleaving exists: handlers 1 and 2 read the same count, handler 1
\* stored its lead, handler 2 got the error and no lead has its email.
C4_Witness ==
    /\ Raced(1, 2) /\ Won(1) /\ Lost(2)
    /\ reqs[2].raw.email \notin Column(leads, "email")

(***************************************************************************)
(* Room generation over the buildings the store can hold: the seeded       *)
(* ones and one created through create_building                            *)
(***************************************************************************)
MaxFloors == 3

MaxTotalRooms == 4

\* A building large enough for room indexes of three digits and floors of
\* two digits.
BigFloors == 11

BigRoomsPerFloor == 101

BuildingShapes ==
    [floors : 0..MaxFloors, total_rooms : 0..MaxTotalRooms]
        \cup {[floors |-> BigFloors, total_rooms |-> BigFloors * BigRoomsPerFloor]}

GenBuildingRequests ==
    {[building_id   |-> BLD_MARKET \o <<"_", "R", "1">>,
      building_name |-> "Annex",
      area          |-> area,
      floors        |-> shape.floors,
      total_rooms   |-> shape.total_rooms] :
        area \in {"Downtown", "SoMA", "Mission", "Oakland"},
        shape \in BuildingShapes}

\* Buildings are created under ids the store does not hold yet (the
\* duplicate id is a case of the catalog, below).
NextGen ==
    \/ \E raw \in GenBuildingRequests :
          /\ raw.building_id \notin Column(buildings, "building_id")
          /\ create_building(raw, NoFailure)
    \/ populate_buildings
    \/ populate_rooms

SpecGen == Init /\ [][NextGen]_vars

\* The rows of a room table that belong to a building.
RoomsOf(table, building_id) ==
    {i \in 1..Len(table) : table[i].building_id = building_id}

\* populate_rooms was the last thing run and its loop over the buildings
\* ran to the end (no building stopped it with an exception).
Generated ==
    /\ last.op = "populate_rooms"
    /\ last.detail \in {"Rooms populated.", IntegrityError}

\* C7: when room generation has run over the stored buildings, it has made
\* exactly floors * (total_rooms // floors) rooms for every building with
\* floors >= 1, and when its commit succeeded exactly that many rooms of
\* the building are stored.
C7_RoomCount ==
    Generated =>
        \A k \in 1..Len(buildings) :
            LET b == buildings[k]
                n == b.floors * (b.total_rooms \div b.floors)
            IN  b.floors >= 1 =>
                  /\ Cardinality(RoomsOf(pending, b.building_id)) = n
                  /\ last.code = 0 =>
                        Cardinality(RoomsOf(rooms, b.building_id)) = n

\* BLD_MARKET with 8 floors and 20 rooms got 16 stored rooms, and a created
\* building whose total_rooms is no multiple of its floors lost rooms too.
C7_Witness ==
    /\ Generated /\ last.code = 0
    /\ \E k \in 1..Len(buildings) :
          /\ buildings[k].building_id = BLD_MARKET
          /\ buildings[k].floors = 8 /\ buildings[k].total_rooms = 20
          /\ Cardinality(RoomsOf(rooms, BLD_MARKET)) = 16
    /\ \E k \in 1..Len(buildings) :
          /\ buildings[k].floors = 3 /\ buildings[k].total_rooms = 4
          /\ Cardinality(RoomsOf(rooms, buildings[k].building_id)) = 3

\* C8: the room ids that one run of room generation makes are pairwise
\* different, within a building and across buildings.
C8_RoomIdsUnique ==
    last.op = "populate_rooms" =>
        Cardinality(Column(pending, "room_id")) = Len(pending)

\* The rents generated for a building on a floor.
RentsOn(building_id, floor) ==
    {pending[i].private_room_rent :
        i \in {j \in RoomsOf(pending, building_id) :
                  pending[j].floor_number = floor}}

\* C9: among the rooms generated for one building, all rooms of a floor
\* have one rent, the rent of a higher floor is never below the rent of a
\* lower floor, and the rent of floor f is the first-floor rent plus
\* (f - 1) times 5% of it.
C9_RentByFloor ==
    last.op = "populate_rooms" =>
        \A k \in 1..Len(buildings) :
            LET b    == buildings[k]
                rent == [f \in 1..b.floors |-> RentsOn(b.building_id, f)]
            IN  \A f \in 1..b.floors :
                   /\ Cardinality(rent[f]) <= 1
                   /\ \A x \in rent[f] :
                         /\ x > 0
                         /\ \A ground \in rent[1] :
                               100 * x = ground * (100 + 5 * (f - 1))
                         /\ \A g \in f..b.floors : \A y \in rent[g] : x <= y

\* BLD_MARKET has stored rooms on floors 1 and 8, at 2860 and 3861 (in
\* thousandths), and the large building has rooms on floor 11.
C9_Witness ==
    /\ Generated
    /\ RentsOn(BLD_MARKET, 1) = {2860000}
    /\ RentsOn(BLD_MARKET, 8) = {3861000}
    /\ \E i \in 1..Len(pending) :
          pending[i].floor_number = BigFloors /\ pending[i].building_id # BLD_MARKET

\* The exceptions populate_rooms raises on a building it cannot generate
\* rooms for.
ConfigurationError == {"ZeroDivisionError", "KeyError"}

HasZeroFloors == \E k \in 1..Len(buildings) : buildings[k].floors = 0

\* C10: no room of a building with floors = 0 is ever stored; a run of
\* room generation over a store that holds such a building ends with an
\* exception, not with success, and stores no room at all.
C10_ZeroFloorsFails ==
    /\ [](\A k \in 1..Len(buildings) :
             buildings[k].floors = 0
                => RoomsOf(rooms, buildings[k].building_id) = {})
    /\ []((last.op = "populate_rooms" /\ HasZeroFloors)
             => last.code # 0 /\ last.detail \in ConfigurationError)
    /\ [][(last'.op = "populate_rooms" /\ HasZeroFloors) => rooms' = rooms]_vars

\* Room generation stopped on the division for a building with no floors,
\* after adding the rooms of the seeded buildings to the session; none of
\* them is stored.
C10_Witness ==
    /\ last.op = "populate_rooms"
    /\ last.detail = "ZeroDivisionError"
    /\ HasZeroFloors
    /\ Len(pending) > 0
    /\ rooms = <<>>

(***************************************************************************)
(* The catalogs served one request at a time: operators, buildings, rooms  *)
(***************************************************************************)
B1 == <<"B", "1">>

CatOperatorRequests ==
    [name : {"Ops"}, email : {"ops@homewiz.com", "john.manager@homewiz.com"},
     operator_type : {Unset, "ADMIN"}]

CatBuildingRequests ==
    [building_id : {B1, BLD_MARKET}, building_name : {"One"},
     area : {"Mission"}, floors : {2}, total_rooms : {4, 5}]

OperatorKeys == {0, 1, 6}

BuildingKeys == {B1, BLD_MARKET, <<"N", "O", "N", "E">>}

RoomKeys ==
    {room_id(B1, room_number(1, 1)), room_id(B1, room_number(3, 1)),
     room_id(BLD_MARKET, room_number(1, 3)), BLD_MARKET}

NextCat ==
    \/ \E raw \in CatOperatorRequests, broken \in Failures :
          create_operator(raw, broken)
    \/ \E raw \in CatBuildingRequests, broken \in Failures :
          create_building(raw, broken)
    \/ \E key \in OperatorKeys : get_operator(key)
    \/ \E key \in BuildingKeys : get_building(key)
    \/ \E key \in RoomKeys : get_room(key)
    \/ populate_operators
    \/ populate_buildings
    \/ populate_rooms

SpecCat == Init /\ [][NextCat]_vars

NotFound(resp, detail) ==
    resp.code = 404 /\ resp.detail = detail /\ resp.ret = NoText

C6_DuplicateKeyConflict ==
    [][/\ (/\ last'.op = "create_building"
           /\ last'.arg.building_id \in Column(buildings, "building_id"))
          => /\ buildings' = buildings /\ operators' = operators
             /\ \/ last'.detail = StorageError
                \/ /\ last'.code = 400
                   /\ last'.detail = "Building with this ID already exists"
       /\ (/\ last'.op = "create_operator"
           /\ last'.arg.email \in Column(operators, "email"))
          => /\ buildings' = buildings /\ operators' = operators
             /\ \/ last'.detail = StorageError
                \/ /\ last'.code = 400
                   /\ last'.detail = "Operator with this email already exists"
      ]_vars

\* A request to create BLD_MARKET with other room counts than the stored
\* BLD_MARKET has was answered 400, in a store that holds operators too.
C6_Witness ==
    /\ last.op = "create_building"
    /\ last.code = 400
    /\ last.arg.building_id = BLD_MARKET
    /\ \E k \in 1..Len(buildings) :
          /\ buildings[k].building_id = BLD_MARKET
          /\ buildings[k].total_rooms # last.arg.total_rooms
    /\ Len(operators) > 0

(***************************************************************************)
(* The whole service served one request at a time: the four create         *)
(* handlers, room generation and the listings                              *)
(***************************************************************************)
B2 == <<"B", "2">>

\* The most tenants the ledger is let grow to.
MaxTenants == 2

SysOperatorRequests ==
    {[name |-> "Ops", email |-> "ops@homewiz.com", operator_type |-> Unset]}

\* B1 gets the rooms B1_R101 and B1_R102, B2 the rooms B2_R101 and B2_R201.
SysBuildingRequests ==
    {[building_id |-> B1, building_name |-> "One", area |-> "Mission",
      floors |-> 1, total_rooms |-> 2],
     [building_id |-> B2, building_name |-> "Two", area |-> "SoMA",
      floors |-> 2, total_rooms |-> 2]}

SysLeadRequests ==
    {raw \in ConcRequests : raw.email = "ana@email.com"}

\* Two requests for the same room, B1_R101, from different people; the
\* second leaves the phone out and has its lease dates in the wrong order.
TenantRequests ==
    {[tenant_name        |-> "Ana Ruiz",
      room_id            |-> room_id(B1, room_number(1, 1)),
      room_number        |-> room_number(1, 1),
      lease_start_date   |-> <<"2", "0", "2", "5", "-", "0", "1", "-", "1", "5">>,
      lease_end_date     |-> <<"2", "0", "2", "5", "-", "0", "7", "-", "1", "4">>,
      operator_id        |-> 1,
      booking_type       |-> "LEASE",
      tenant_nationality |-> "Spain",
      tenant_email       |-> "ana@email.com",
      phone              |-> "415-555-0100",
      building_id        |-> B1,
      deposit_amount     |-> 1870],
     [tenant_name        |-> "Bo Chen",
      room_id            |-> room_id(B1, room_number(1, 1)),
      room_number        |-> room_number(1, 1),
      lease_start_date   |-> <<"2", "0", "2", "5", "-", "1", "2", "-", "0", "1">>,
      lease_end_date     |-> <<"2", "0", "2", "5", "-", "0", "3", "-", "0", "1">>,
      operator_id        |-> 1,
      booking_type       |-> "SHORT_TERM",
      tenant_nationality |-> "Canada",
      tenant_email       |-> "bo@email.com",
      phone              |-> Unset,
      building_id        |-> B1,
      deposit_amount     |-> 0]}

\* The queries of get_rooms: no building_id, the empty one, the two
\* buildings, and a building no request creates.
RoomQueries ==
    {[given |-> FALSE, building_id |-> NoText]}
        \cup [given : {TRUE}, building_id : {NoText, B1, B2, BLD_MARKET}]

NextSys ==
    \/ \E raw \in SysOperatorRequests, broken \in Failures :
          create_operator(raw, broken)
    \/ \E raw \in SysBuildingRequests, broken \in Failures :
          create_building(raw, broken)
    \/ \E raw \in SysLeadRequests, broken \in Failures : create_lead(raw, broken)
    \/ \E raw \in TenantRequests, broken \in Failures, foreign_keys \in BOOLEAN :
          /\ Len(tenants) < MaxTenants
          /\ create_tenant(raw, broken, foreign_keys)
    \/ populate_rooms
    \/ \E query \in RoomQueries : get_rooms(query)
    \/ get_tenants
    \/ get_leads

SpecSys == Init /\ [][NextSys]_vars

(***************************************************************************)
(* Claims about the tenant ledger served one request at a time             *)
(***************************************************************************)
\* The number a tenant id carries after its TNT_ prefix.
TenantNumber(tenant_id) == int(SubSeq(tenant_id, Len(TNT_) + 1, Len(tenant_id)))

IsTenantId(tenant_id) ==
    /\ Len(tenant_id) >= Len(TNT_) + 3
    /\ SubSeq(tenant_id, 1, Len(TNT_)) = TNT_
    /\ IsDigits(SubSeq(tenant_id, Len(TNT_) + 1, Len(tenant_id)))

\* The row holds what the request said: every field of the request, the
\* dates read back as the text they were sent as, and no phone when the
\* request had none.
HoldsRequest(row, raw) ==
    /\ row.tenant_name = raw.tenant_name
    /\ row.room_id = raw.room_id
    /\ row.room_number = raw.room_number
    /\ isoformat(row.lease_start_date) = raw.lease_start_date
    /\ isoformat(row.lease_end_date) = raw.lease_end_date
    /\ row.operator_id = raw.operator_id
    /\ row.booking_type = raw.booking_type
    /\ row.tenant_nationality = raw.tenant_nationality
    /\ row.tenant_email = raw.tenant_email
    /\ row.phone = (IF raw.phone = Unset THEN None ELSE raw.phone)
    /\ row.building_id = raw.building_id
    /\ row.deposit_amount = raw.deposit_amount

\* The room and the operator the request names are stored.
ReferencesStored(raw) ==
    /\ raw.room_id \in Column(rooms, "room_id")
    /\ raw.operator_id \in Column(operators, "operator_id")

\* C11: with requests served one at a time, a create_tenant request either
\* stores nothing (the storage fails before the commit, or a reference of
\* the request names no stored row where references are checked) or
\* appends exactly one row to the tenant table: its id carries
\* (rows before + 1), its status is ACTIVE, its payment_status is CURRENT
\* and its other fields are the request's; it then answers with that id,
\* unless the storage fails after the commit.
C11_SequentialTenantIds ==
    [][last'.op = "create_tenant"
       => \/ /\ last'.code = 500
             /\ tenants' = tenants
             /\ \/ last'.detail = StorageError
                \/ last'.detail = IntegrityError /\ ~ReferencesStored(last'.arg)
          \/ /\ \/ /\ Answered(last', "create_tenant")
                   /\ tenants'[Len(tenants')].tenant_id = last'.ret
                \/ last'.detail = StorageError
             /\ Len(tenants') = Len(tenants) + 1
             /\ SubSeq(tenants', 1, Len(tenants)) = tenants
             /\ IsTenantId(tenants'[Len(tenants')].tenant_id)
             /\ TenantNumber(tenants'[Len(tenants')].tenant_id) = Len(tenants) + 1
             /\ tenants'[Len(tenants')].status = "ACTIVE"
             /\ tenants'[Len(tenants')].payment_status = "CURRENT"
             /\ HoldsRequest(tenants'[Len(tenants')], last'.arg)]_vars

\* The second tenant was just created as TNT_002 after TNT_001, from the
\* request without a phone, for a stored room and a stored operator.
C11_Witness ==
    /\ Answered(last, "create_tenant")
    /\ last.ret = TNT_ \o <<"0", "0", "2">>
    /\ Len(tenants) = 2
    /\ tenants[1].tenant_id = TNT_ \o <<"0", "0", "1">>
    /\ tenants[2].tenant_id = last.ret
    /\ last.arg.phone = Unset /\ tenants[2].phone = None
    /\ tenants[2].status = "ACTIVE" /\ tenants[2].payment_status = "CURRENT"
    /\ ReferencesStored(last.arg)

\* The rows of a tenant table that are ACTIVE on a room.
ActiveOn(table, room) ==
    {i \in 1..Len(table) : table[i].room_id = room /\ table[i].status = "ACTIVE"}

\* C12: a create_tenant request for a room that a stored ACTIVE tenant
\* already references is treated as any other: unless it fails on the
\* storage or on a reference that names no stored row, it is answered with
\* status 200 and one more ACTIVE tenant is stored on that room.
C12_NoRoomExclusivity ==
    [][(/\ last'.op = "create_tenant"
        /\ ActiveOn(tenants, last'.arg.room_id) # {})
       => \/ last'.detail = StorageError
          \/ last'.detail = IntegrityError /\ ~ReferencesStored(last'.arg)
          \/ /\ Answered(last', "create_tenant")
             /\ last'.detail = "Tenant created successfully"
             /\ Cardinality(ActiveOn(tenants', last'.arg.room_id))
                   = Cardinality(ActiveOn(tenants, last'.arg.room_id)) + 1]_vars

\* Two ACTIVE tenants, different people, are stored on the stored room
\* B1_R101, and the request of the second was answered without error.
C12_Witness ==
    /\ Answered(last, "create_tenant")
    /\ last.arg.room_id = room_id(B1, room_number(1, 1))
    /\ last.arg.room_id \in Column(rooms, "room_id")
    /\ Cardinality(ActiveOn(tenants, last.arg.room_id)) = 2
    /\ tenants[1].tenant_email # tenants[2].tenant_email
    /\ tenants[1].tenant_id # tenants[2].tenant_id

(***************************************************************************)
(* Claims about the whole service                                          *)
(***************************************************************************)
Creates == {"create_operator", "create_building", "create_lead", "create_tenant"}

\* C13: a create request (operator, building, lead or tenant) that ends
\* with the storage error is answered with status 500 and leaves every
\* table as it was before the request.
C13_FailedCreateStoresNothing ==
    [][(last'.op \in Creates /\ last'.detail = StorageError)
       => last'.code = 500 /\ tables' = tables]_vars

\* C14: in every state of the service, whatever requests it has served and
\* however often rooms were generated, the building_id of every stored
\* room is the building_id of a stored building.
C14_RoomsHaveBuildings ==
    \A i \in 1..Len(rooms) :
        rooms[i].building_id \in Column(buildings, "building_id")

\* The rooms of B1 and of B2 are stored, and so are an operator, a lead
\* and a tenant created since.
C14_Witness ==
    /\ RoomsOf(rooms, B1) # {} /\ RoomsOf(rooms, B2) # {}
    /\ Len(rooms) = 4
    /\ Len(operators) > 0 /\ Len(leads) > 0 /\ Len(tenants) > 0
    /\ last.op = "get_rooms"

\* C17: a create_tenant or create_lead request, answered or failed, leaves
\* every row of the room table as it was; in particular the room that a
\* stored tenant references keeps the status AVAILABLE it was generated
\* with.
C17_RoomsUntouched ==
    /\ [][last'.op \in {"create_tenant", "create_lead"} => rooms' = rooms]_vars
    /\ [](\A i \in 1..Len(rooms) :
             rooms[i].room_id \in Column(tenants, "room_id")
                => rooms[i].status = "AVAILABLE")

\* A tenant was just stored on the stored room B1_R101, after a lead was
\* stored too, and the room is AVAILABLE.
C17_Witness ==
    /\ Answered(last, "create_tenant")
    /\ Len(leads) > 0
    /\ \E i \in 1..Len(rooms) :
          /\ rooms[i].room_id = last.arg.room_id
          /\ rooms[i].status = "AVAILABLE"
          /\ ActiveOn(tenants, rooms[i].room_id) # {}

\* The query names a building: it has a building_id that is not empty.
NamesBuilding(query) == query.given /\ query.building_id # NoText

\* C18: get_rooms answers with status 200 and a list, never with 404.  For
\* a query that names a building the list holds exactly the stored rooms
\* of that building, each once (none when the building has no room or is
\* not stored); for a query with no building_id or an empty one it is the
\* whole room table.  The request changes no table.
C18_RoomListing ==
    /\ [](last.op = "get_rooms"
            => /\ last.code = 200
               /\ IF NamesBuilding(last.arg)
                  THEN /\ \A i \in 1..Len(last.ret) :
                             /\ last.ret[i].building_id = last.arg.building_id
                             /\ \E j \in 1..Len(rooms) : rooms[j] = last.ret[i]
                       /\ Len(last.ret)
                             = Cardinality(RoomsOf(rooms, last.arg.building_id))
                       /\ Cardinality(Column(last.ret, "room_id")) = Len(last.ret)
                  ELSE last.ret = rooms)
    /\ [][last'.op = "get_rooms" => tables' = tables]_vars

\* With the rooms of B1 and B2 stored, the query for B2 was answered with
\* the two rooms of B2.
C18_Witness ==
    /\ last.op = "get_rooms"
    /\ last.arg.given /\ last.arg.building_id = B2
    /\ Len(rooms) = 4
    /\ Len(last.ret) = 2
    /\ last.ret[1].room_id = room_id(B2, room_number(1, 1))
    /\ last.ret[2].room_id = room_id(B2, room_number(2, 1))

(***************************************************************************)
(* create_lead and create_tenant served by two handlers at once, on a      *)
(* store that holds an operator, the building B1 and its rooms and no      *)
(* lead and no tenant                                                      *)
(***************************************************************************)
\* tenant_count = db.query(Tenant).count(); tenant_id = f"TNT_{...}"
tenant_counting(p, raw) ==
    /\ reqs[p].pc \in {"idle", "done"}
    /\ Len(tenants) < MaxTenants
    /\ reqs' = [reqs EXCEPT ![p] =
                   [pc |-> "tenant commit", raw |-> raw,
                    tenant_id |-> tenant_id_for(tenant_count(tenants)),
                    resp |-> Idle.resp]]
    /\ UNCHANGED <<tables, last, pending>>

\* db.add(tenant); db.commit(); the answer, or rollback and the 500 answer
tenant_insert(p, foreign_keys) ==
    LET r    == reqs[p]
        done == tenant_commit(tenants, Tenant(r.tenant_id, TenantCreate(r.raw)),
                              foreign_keys)
        resp == IF done.ok
                THEN Response("create_tenant", r.raw, 200,
                              "Tenant created successfully", r.tenant_id)
                ELSE Response("create_tenant", r.raw, 500, IntegrityError, NoText)
    IN  /\ r.pc = "tenant commit"
        /\ tenants' = done.table
        /\ reqs' = [reqs EXCEPT ![p].pc = "done", ![p].resp = resp]
        /\ last' = resp
        /\ UNCHANGED <<operators, buildings, rooms, leads, pending>>

InitIds ==
    /\ operators = <<Operator(1, OperatorCreate(CHOOSE raw \in SysOperatorRequests : TRUE))>>
    /\ buildings = <<Building(CHOOSE raw \in SysBuildingRequests :
                                 raw.building_id = B1)>>
    /\ rooms = building_rooms(buildings[1]).added
    /\ leads = <<>>
    /\ tenants = <<>>
    /\ last = Response("none", NoText, 0, "", NoText)
    /\ reqs = [p \in Procs |-> Idle]
    /\ pending = <<>>

IdsLeadRequests == {raw \in ConcRequests : raw.email # "sarah.smith@email.com"}

IdsTenantRequests == {raw \in TenantRequests : raw.phone # Unset}

NextIds ==
    \E p \in Procs :
        \/ \E raw \in IdsLeadRequests : lead_lookup(p, raw)
        \/ lead_counting(p)
        \/ lead_insert(p)
        \/ \E raw \in IdsTenantRequests : tenant_counting(p, raw)
        \/ \E foreign_keys \in BOOLEAN : tenant_insert(p, foreign_keys)

SpecIds == InitIds /\ [][NextIds]_vars

(***************************************************************************)
(* Claims about concurrent creation                                        *)
(***************************************************************************)
\* C15: while create_lead requests are served by two handlers at once, on
\* a store that starts without two leads of one email, no two stored leads
\* have the same email.
C15_OneLeadPerEmail ==
    Cardinality(Column(leads, "email")) = Len(leads)

\* Handler p is about to insert, or has just tried to.
Inserting(p) == reqs[p].pc \in {"commit", "tenant commit"}

\* C16: while create_lead and create_tenant requests are served by two
\* handlers at once from empty tables, the stored lead ids are well formed
\* and carry exactly the numbers 1..(number of leads), each once, and the
\* same holds of the stored tenant ids; and the step in which a handler's
\* insert is rejected changes neither table.
C16_IdsWithoutGaps ==
    /\ [](/\ \A i \in 1..Len(leads) : IsLeadId(leads[i].lead_id)
          /\ {LeadNumber(leads[i].lead_id) : i \in 1..Len(leads)} = 1..Len(leads)
          /\ \A i \in 1..Len(tenants) : IsTenantId(tenants[i].tenant_id)
          /\ {TenantNumber(tenants[i].tenant_id) : i \in 1..Len(tenants)}
                = 1..Len(tenants))
    /\ [][\A p \in Procs :
             (Inserting(p) /\ reqs'[p].pc = "done" /\ reqs'[p].resp.code # 200)
             => leads' = leads /\ tenants' = tenants]_vars

\* Handler 1 lost a race for a tenant id (its insert was rejected and it
\* has served nothing since), and two tenants and two leads are stored.
C16_Witness ==
    /\ reqs[1].pc = "done"
    /\ reqs[1].resp.op = "create_tenant"
    /\ reqs[1].resp.code = 500
    /\ reqs[1].tenant_id \in Column(tenants, "tenant_id")
    /\ Len(tenants) = 2
    /\ Len(leads) = 2

====
